---- MODULE Spec2Model ----
(***************************************************************************)
(* LP5569 LED sequencer driven over a bit-banged I2C bus                   *)
(* (cmd/gpio_drive_strength.c: lp5569 command, i2c_bitbang).               *)
(*                                                                         *)
(* The bus engine is modelled by operators that compute, for the values    *)
(* the slave puts on the data line, the trace of bus operations a call     *)
(* makes and the value it returns.  The callers (lp5569_init,              *)
(* lp5569_run_program, lp5569_write_bulk, lp5569_cmd) are modelled as a    *)
(* state machine with one step per register write or call boundary.        *)
(* The 5 us settle delays of the bus engine are not part of the trace.     *)
(***************************************************************************)
EXTENDS Integers, Sequences, FiniteSets

(* ------------------------------------------------------------------ *)
(* Program constants                                                    *)
(* ------------------------------------------------------------------ *)
LP5569_MAX_PROGRAM_LEN == 32
LP5569_MEM_LEDMUX_LOCATION == 16
LP5569_I2C_ADDR == 100
LP5569_REG_CONFIG == 0
LP5569_REG_MISC == 47
LP5569_REG_RESET == 63
LP5569_REG_ENGINE1_PROG_START == 75
LP5569_REG_LED_ENGINE_CONTROL1 == 1
LP5569_REG_LED_ENGINE_CONTROL2 == 2
LP5569_REG_PROG_MEM_PAGE_SELECT == 79
LP5569_REG_PROGRAM_MEM_00 == 80
LP5569_REG_LED0_CURRENT == 34
LP5569_REG_LED1_CURRENT == 35
LP5569_REG_LED2_CURRENT == 36
LP5569_REG_LED3_CURRENT == 37
LP5569_REG_LED4_CURRENT == 38
LP5569_REG_LED5_CURRENT == 39
LP5569_REG_LED6_CURRENT == 40
LP5569_REG_LED7_CURRENT == 41
LP5569_REG_LED8_CURRENT == 42
RED_CURRENT == 10
GREEN_CURRENT == 3
BLUE_CURRENT == 8
SDA_PIN == 2
SCL_PIN == 3
\* the retry bound of the for loop in lp5569_cmd
INIT_RETRIES == 15
\* udelay(100 * 1000) between two initialization attempts, in microseconds
RETRY_DELAY_US == 100000
\* errno value behind -EINVAL
EINVAL == 22
\* errno values the digital-I/O layer answers a refused request / release with
EBUSY == 16
ENXIO == 6
\* errno value the digital-I/O layer answers a failed change of direction with
EIO == 5
\* uint8_t
Byte == 0..255
\* the idle delays of do_lp5569_error that are counted
MaxIdle == 1
\* lp5569_run_program on its own: the short lengths tried besides 32, 33 and 255
MaxShortLen == 1
\* lp5569_write_bulk on its own: the longest buffer tried
MaxBulkLen == 3
MaxTapeIndex == 3
MaxCalls == 2
MaxLifecycleCalls == 4
\* lp5569_write_bulk on its own: the base registers tried (program memory,
\* and one near the end of the 8-bit register space)
BulkBases == { LP5569_REG_PROGRAM_MEM_00, 254 }
\* the number of tapes: sizeof (led_mux_tapes) / LP5569_MAX_PROGRAM_LEN
NumTapes == 2

\* a C array initializer shorter than the array is filled with zeros
ZeroFill(s, n) == s \o [k \in 1..(n - Len(s)) |-> 0]

led_mux_tapes ==
    << ZeroFill(<<0, 2, 0, 32, 0, 128, 0, 4, 0, 16, 1, 0>>, LP5569_MAX_PROGRAM_LEN),
       ZeroFill(<<0, 73, 0, 73, 0, 73, 0, 73, 0, 73, 0, 73>>, LP5569_MAX_PROGRAM_LEN) >>

led_prog ==
    ZeroFill(<<156, LP5569_MEM_LEDMUX_LOCATION, 156, 149, 64, 255, 126, 0,
               64, 0, 157, 128, 160, 2>>, LP5569_MAX_PROGRAM_LEN)

(* ------------------------------------------------------------------ *)
(* Bit-level transaction engine: traces of bus operations               *)
(* ------------------------------------------------------------------ *)
\* An entry of a bus trace: the entry of a bit-level function (op = its
\* name, val = its argument) or one digital-I/O operation it makes.
BusOp(op, val) == [op |-> op, val |-> val]
\* bus->set_sda / bus->set_scl: the level is handed to gpio_direction_output
set_sda(bit) == BusOp("set_sda", bit)
set_scl(bit) == BusOp("set_scl", bit)
\* bus->get_sda: value is what gpio_read answers (0, 1 or a negative error)
get_sda(value) == BusOp("get_sda", value)

\* gpio_read: dir is what gpio_direction_input answers, level what
\* gpio_get_value answers; a level other than 0 and 1 gives -EINVAL
gpio_read(dir, level) ==
    IF dir # 0 THEN dir
    ELSE IF level # 0 /\ level # 1 THEN -EINVAL ELSE level

\* gpio_write: what gpio_direction_output answers is what it returns; set_sda
\* and set_scl are void and drop it, so it reaches no caller
gpio_write(res) == res

i2c_start == << BusOp("i2c_start", 0), set_sda(1), set_scl(1), set_sda(0) >>

i2c_stop == << BusOp("i2c_stop", 0), set_scl(0), set_sda(0), set_scl(1), set_sda(1) >>

\* i2c_write_bit as it would be if the data line were set after the clock
\* was raised
i2c_write_bit_late_data(bit) ==
    << BusOp("i2c_write_bit", bit), set_scl(0), set_scl(1), set_sda(bit) >>

i2c_write_bit(bit) ==
    << BusOp("i2c_write_bit", bit), set_scl(0), set_sda(bit), set_scl(1) >>

\* value: what bus->get_sda answers while the clock is high
i2c_read_bit(value) ==
    << BusOp("i2c_read_bit", 0), set_scl(1), get_sda(value), set_scl(0) >>

\* The sample taken after releasing the line is discarded by the code; the
\* line is taken to answer it as it answers the sample of i2c_read_bit.
i2c_sda_high(value) ==
    << BusOp("i2c_sda_high", 0), set_scl(0), set_sda(1), get_sda(value) >>

\* data & 0x80 on a uint8_t
And0x80(data) == IF (data \div 128) % 2 = 1 THEN 128 ELSE 0
\* data <<= 1 on a uint8_t
Shl1(data) == (data * 2) % 256

\* the for loop of i2c_write_byte, from iteration j on
RECURSIVE WriteBits(_, _)
WriteBits(data, j) ==
    IF j < 8 THEN i2c_write_bit(And0x80(data)) \o WriteBits(Shl1(data), j + 1)
    ELSE << >>

\* i2c_write_byte: the trace, and ret = the sampled acknowledgment bit.
\* nack is what get_sda answers on the ninth clock.
i2c_write_byte(data, nack) ==
    [ trace |-> << BusOp("i2c_write_byte", data) >> \o WriteBits(data, 0)
                  \o i2c_sda_high(nack) \o i2c_read_bit(nack),
      ret |-> nack ]

\* i2c_set_register as it would be if the address NACK path returned
\* without the stop condition
i2c_set_register_no_stop(addr, reg, val, acks) ==
    LET b1 == i2c_write_byte(addr, acks[1])
        b2 == i2c_write_byte(reg, acks[2])
        b3 == i2c_write_byte(val, acks[3])
    IN  IF b1.ret # 0
        THEN [ trace |-> i2c_start \o b1.trace, ret |-> -1 ]
        ELSE IF b2.ret # 0
        THEN [ trace |-> i2c_start \o b1.trace \o b2.trace \o i2c_stop, ret |-> -1 ]
        ELSE [ trace |-> i2c_start \o b1.trace \o b2.trace \o b3.trace \o i2c_stop,
               ret |-> IF b3.ret # 0 THEN -1 ELSE 0 ]

\* i2c_set_register as it would be if the acknowledgment of the register
\* byte were not checked
i2c_set_register_reg_unchecked(addr, reg, val, acks) ==
    LET b1 == i2c_write_byte(addr, acks[1])
        b2 == i2c_write_byte(reg, acks[2])
        b3 == i2c_write_byte(val, acks[3])
    IN  IF b1.ret # 0
        THEN [ trace |-> i2c_start \o b1.trace \o i2c_stop, ret |-> -1 ]
        ELSE [ trace |-> i2c_start \o b1.trace \o b2.trace \o b3.trace \o i2c_stop,
               ret |-> IF b3.ret # 0 THEN -1 ELSE 0 ]

\* i2c_set_register: acks[n] is what the data line answers after byte n.
i2c_set_register(addr, reg, val, acks) ==
    LET b1 == i2c_write_byte(addr, acks[1])
        b2 == i2c_write_byte(reg, acks[2])
        b3 == i2c_write_byte(val, acks[3])
    IN  IF b1.ret # 0
        THEN [ trace |-> i2c_start \o b1.trace \o i2c_stop, ret |-> -1 ]
        ELSE IF b2.ret # 0
        THEN [ trace |-> i2c_start \o b1.trace \o b2.trace \o i2c_stop, ret |-> -1 ]
        ELSE IF b3.ret # 0
        THEN [ trace |-> i2c_start \o b1.trace \o b2.trace \o b3.trace \o i2c_stop,
               ret |-> -1 ]
        ELSE [ trace |-> i2c_start \o b1.trace \o b2.trace \o b3.trace \o i2c_stop,
               ret |-> 0 ]

lp5569_set_register(reg, val, acks) == i2c_set_register(LP5569_I2C_ADDR, reg, val, acks)

\* The level a line is left at by a trace: the last level handed to op.
RECURSIVE LastLevel(_, _, _)
LastLevel(trace, op, before) ==
    IF trace = << >> THEN before
    ELSE LET e == trace[Len(trace)]
         IN  IF e.op = op THEN e.val
             ELSE LastLevel(SubSeq(trace, 1, Len(trace) - 1), op, before)

\* The values the i2c_read_bit calls of a trace sampled, in order.
SampledBits(trace) ==
    LET at == { k \in 1..Len(trace) : trace[k].op = "i2c_read_bit" }
        nth(j) == CHOOSE k \in at : Cardinality({ m \in at : m < k }) = j - 1
    IN  [ j \in 1..Cardinality(at) |-> trace[nth(j) + 2].val ]

(* ------------------------------------------------------------------ *)
(* Digital-I/O capability: line ownership                               *)
(* ------------------------------------------------------------------ *)
\* What gpio_request may answer for a line, given the lines already held:
\* a line that is held is never handed out again.
RequestResults(h, line) == IF line \in h THEN { -EBUSY } ELSE { 0, -EBUSY }
\* What gpio_free may answer: 0, or an error that leaves the line as it was.
FreeResults(h, line) == IF line \in h THEN { 0, -ENXIO } ELSE { -ENXIO }

gpio_request(h, line, res) == IF res = 0 THEN h \cup { line } ELSE h
gpio_free(h, line, res) == IF res = 0 THEN h \ { line } ELSE h

GpioOp(op, line, res) == [op |-> op, line |-> line, res |-> res]

\* i2c_init as it would be if the error path did not free SCL
i2c_init_no_free(h, r1, r2, f) ==
    IF r1 # 0
    THEN [ ret |-> r1, held |-> gpio_request(h, SCL_PIN, r1),
           log |-> << GpioOp("request", SCL_PIN, r1) >> ]
    ELSE [ ret |-> r2,
           held |-> gpio_request(gpio_request(h, SCL_PIN, r1), SDA_PIN, r2),
           log |-> << GpioOp("request", SCL_PIN, r1), GpioOp("request", SDA_PIN, r2) >> ]

\* i2c_init: h the lines held before, r1 / r2 the answers to the requests of
\* SCL and SDA, f the answer to the gpio_free of SCL on the error path.
i2c_init(h, r1, r2, f) ==
    IF r1 # 0
    THEN [ ret |-> r1, held |-> gpio_request(h, SCL_PIN, r1),
           log |-> << GpioOp("request", SCL_PIN, r1) >> ]
    ELSE IF r2 # 0
    THEN [ ret |-> r2,
           held |-> gpio_free(gpio_request(gpio_request(h, SCL_PIN, r1), SDA_PIN, r2),
                              SCL_PIN, f),
           log |-> << GpioOp("request", SCL_PIN, r1), GpioOp("request", SDA_PIN, r2),
                      GpioOp("free", SCL_PIN, f) >> ]
    ELSE [ ret |-> 0,
           held |-> gpio_request(gpio_request(h, SCL_PIN, r1), SDA_PIN, r2),
           log |-> << GpioOp("request", SCL_PIN, r1), GpioOp("request", SDA_PIN, r2) >> ]

\* i2c_deinit as it would be if it released the clock line only
i2c_deinit_scl_only(h, f1, f2) ==
    [ ret |-> f1, held |-> gpio_free(h, SCL_PIN, f1),
      log |-> << GpioOp("free", SCL_PIN, f1) >> ]

\* i2c_deinit: f1 / f2 the answers to the gpio_free of SCL and of SDA.
i2c_deinit(h, f1, f2) ==
    IF f1 # 0
    THEN [ ret |-> f1, held |-> gpio_free(h, SCL_PIN, f1),
           log |-> << GpioOp("free", SCL_PIN, f1) >> ]
    ELSE IF f2 # 0
    THEN [ ret |-> f2, held |-> gpio_free(gpio_free(h, SCL_PIN, f1), SDA_PIN, f2),
           log |-> << GpioOp("free", SCL_PIN, f1), GpioOp("free", SDA_PIN, f2) >> ]
    ELSE [ ret |-> 0, held |-> gpio_free(gpio_free(h, SCL_PIN, f1), SDA_PIN, f2),
           log |-> << GpioOp("free", SCL_PIN, f1), GpioOp("free", SDA_PIN, f2) >> ]

(* ------------------------------------------------------------------ *)
(* Chip control: the register writes of lp5569_init, in program order   *)
(* ------------------------------------------------------------------ *)
RegVal(reg, val) == [reg |-> reg, val |-> val]

lp5569_init_writes ==
    << RegVal(LP5569_REG_RESET, 255),
       RegVal(LP5569_REG_CONFIG, 64),
       RegVal(LP5569_REG_MISC, 89),
       RegVal(LP5569_REG_ENGINE1_PROG_START, 0),
       RegVal(LP5569_REG_LED0_CURRENT, RED_CURRENT),
       RegVal(LP5569_REG_LED3_CURRENT, RED_CURRENT),
       RegVal(LP5569_REG_LED6_CURRENT, RED_CURRENT),
       RegVal(LP5569_REG_LED1_CURRENT, GREEN_CURRENT),
       RegVal(LP5569_REG_LED4_CURRENT, GREEN_CURRENT),
       RegVal(LP5569_REG_LED7_CURRENT, GREEN_CURRENT),
       RegVal(LP5569_REG_LED2_CURRENT, BLUE_CURRENT),
       RegVal(LP5569_REG_LED5_CURRENT, BLUE_CURRENT),
       RegVal(LP5569_REG_LED8_CURRENT, BLUE_CURRENT) >>

\* lp5569_mem_page_select as it would be with the two pages exchanged
MemPage_swapped(is_mux) == IF is_mux THEN 0 ELSE 1

\* lp5569_mem_page_select: the page written for is_mux
MemPage(is_mux) == IF is_mux THEN 1 ELSE 0

\* the register lp5569_write_bulk hands to lp5569_set_register (uint8_t reg)
BulkReg(reg, k) == (reg + k) % 256

\* cmd_process_error(cmdtp, err)
cmd_process_error(err) == IF err = -1 THEN -1 ELSE IF err # 0 THEN 1 ELSE 0

\* ret2 = i2c_deinit(&gpio_i2c) != 0: the comparison binds before the assignment
Ret2(deinit_ret) == IF deinit_ret # 0 THEN 1 ELSE 0

\* the value lp5569_cmd hands to cmd_process_error when teardown failed
DeinitError(r, r2) == IF r # 0 THEN r ELSE r2

(* ------------------------------------------------------------------ *)
(* State                                                                *)
(* ------------------------------------------------------------------ *)
VARIABLES
    pc,          \* the position of the running function
    stack,       \* the positions to return to, innermost first
    rv,          \* the value the last returned function returned
    cmd,         \* the command running: "lp5569" or "lp5569_error"
    tape_index,  \* lp5569_cmd / lp5569_play_tape: the tape requested
    i,           \* lp5569_cmd: the retry counter
    ret,         \* lp5569_cmd: ret
    ret2,        \* lp5569_cmd: ret2
    cmdRet,      \* what lp5569_cmd returned
    reported,    \* the errors handed to cmd_process_error, in order
    cmdLog,      \* lp5569_cmd: the calls it made, in order, with their results
    idle,        \* do_lp5569_error: idle delays made after lp5569_cmd (capped)
    held,        \* the lines the digital-I/O layer has handed to the command
    gpioLog,     \* the gpio_request / gpio_free calls made, with their answers
    scl,         \* the level last driven on the clock line
    sda,         \* the level last driven on the data line
    busLog,      \* the bus trace of the last i2c_set_register / i2c_write_byte
    sampled,     \* the acknowledgment bits that call sampled, in order
    regLog,      \* the register writes of the operation in progress, with results
    initStep,    \* lp5569_init: the write it is at (1..13)
    rp,          \* lp5569_run_program: its parameters
    bulk,        \* lp5569_write_bulk: its parameters and loop counter
    wdata        \* i2c_write_byte: the byte handed to it

ctlv == << pc, stack, rv >>
cmdv == << cmd, tape_index, i, ret, ret2, cmdRet, reported, cmdLog, idle >>
gpiov == << held, gpioLog >>
busv == << scl, sda, busLog, sampled, regLog >>
callv == << initStep, rp, bulk, wdata >>
vars == << ctlv, cmdv, gpiov, busv, callv >>

\* the levels the data line can show when sampled: 0, 1, or one that is neither
Levels == { 0, 1, 2 }
\* what gpio_direction_input can answer
DirResults == { 0, -EIO }
\* what get_sda can answer when an acknowledgment bit is sampled
GpioReadResults == { gpio_read(d, l) : d \in DirResults, l \in Levels }
\* what gpio_direction_output can answer
OutputResults == { 0, -EIO }
\* the answers to the three samples of one i2c_set_register call
AckAnswers == [1..3 -> GpioReadResults]

NoRp == [mux |-> << >>, mux_len |-> 0, prog |-> << >>, prog_len |-> 0]
NoBulk == [reg |-> 0, buf |-> << >>, size |-> 0, k |-> 0]

Event(ev, val) == [ev |-> ev, val |-> val]


(* ------------------------------------------------------------------ *)
(* Steps                                                                *)
(* ------------------------------------------------------------------ *)
\* return to the caller (the value returned is in rv')
Return == pc' = Head(stack) /\ stack' = Tail(stack)

\* call a function whose first position is f, to come back at position back
Call(f, back) == pc' = f /\ stack' = << back >> \o stack

\* One lp5569_set_register(reg, val) call; acks are the answers of get_sda
\* when the three acknowledgment bits are sampled.
WriteRegister(reg, val, acks) ==
    \E r \in { lp5569_set_register(reg, val, acks) } :
        /\ busLog' = r.trace
        /\ scl' = LastLevel(r.trace, "set_scl", scl)
        /\ sda' = LastLevel(r.trace, "set_sda", sda)
        /\ sampled' = SampledBits(r.trace)
        /\ regLog' = Append(regLog, [reg |-> reg, val |-> val, ret |-> r.ret])
        /\ rv' = r.ret

\* lp5569_cmd: i2c_init, and the return when it fails
cmd_i2c_init ==
    /\ pc = "lp5569_cmd"
    /\ \E r1 \in RequestResults(held, SCL_PIN) :
       \E r2 \in RequestResults(gpio_request(held, SCL_PIN, r1), SDA_PIN) :
       \E f \in FreeResults(gpio_request(held, SCL_PIN, r1), SCL_PIN) :
          LET r == i2c_init(held, r1, r2, f)
          IN  /\ held' = r.held
              /\ gpioLog' = gpioLog \o r.log
              /\ ret' = r.ret
              /\ cmdLog' = Append(cmdLog, Event("i2c_init", r.ret))
              /\ IF r.ret # 0
                 THEN /\ reported' = Append(reported, r.ret)
                      /\ cmdRet' = << cmd_process_error(r.ret) >>
                      /\ pc' = "cmd_return"
                      /\ i' = i
                 ELSE /\ UNCHANGED << reported, cmdRet >>
                      /\ i' = 0
                      /\ pc' = "loop_test"
    /\ UNCHANGED << stack, rv, cmd, tape_index, ret2, idle, busv, callv >>

\* the loop test as it would be with i <= 15
cmd_loop_test_off_by_one ==
    /\ pc = "loop_test"
    /\ IF i <= INIT_RETRIES
       THEN /\ Call("lp5569_init", "init_ret")
            /\ initStep' = 1
            /\ regLog' = << >>
       ELSE /\ pc' = "after_loop"
            /\ UNCHANGED << stack, initStep, regLog >>
    /\ UNCHANGED << rv, cmdv, gpiov, scl, sda, busLog, sampled, rp, bulk, wdata >>

\* lp5569_cmd: for (i = 0; i < 15; i++), the test and the call of lp5569_init
cmd_loop_test ==
    /\ pc = "loop_test"
    /\ IF i < INIT_RETRIES
       THEN /\ Call("lp5569_init", "init_ret")
            /\ initStep' = 1
            /\ regLog' = << >>
       ELSE /\ pc' = "after_loop"
            /\ UNCHANGED << stack, initStep, regLog >>
    /\ UNCHANGED << rv, cmdv, gpiov, scl, sda, busLog, sampled, rp, bulk, wdata >>

\* lp5569_init as it would be if a failed write did not end the attempt
lp5569_init_continue ==
    /\ pc = "lp5569_init"
    /\ \E acks \in AckAnswers :
          WriteRegister(lp5569_init_writes[initStep].reg,
                        lp5569_init_writes[initStep].val, acks)
    /\ IF initStep = Len(lp5569_init_writes)
       THEN Return /\ UNCHANGED initStep
       ELSE initStep' = initStep + 1 /\ UNCHANGED << pc, stack >>
    /\ UNCHANGED << cmdv, gpiov, rp, bulk, wdata >>


\* lp5569_init: one register write and its check
lp5569_init ==
    /\ pc = "lp5569_init"
    /\ \E acks \in AckAnswers :
          WriteRegister(lp5569_init_writes[initStep].reg,
                        lp5569_init_writes[initStep].val, acks)
    /\ IF rv' # 0 \/ initStep = Len(lp5569_init_writes)
       THEN Return /\ UNCHANGED initStep
       ELSE initStep' = initStep + 1 /\ UNCHANGED << pc, stack >>
    /\ UNCHANGED << cmdv, gpiov, rp, bulk, wdata >>

\* lp5569_cmd: the result of lp5569_init: retry after a delay, or break
cmd_init_ret ==
    /\ pc = "init_ret"
    /\ ret' = rv
    /\ cmdLog' = Append(cmdLog, Event("lp5569_init", rv))
    /\ pc' = IF rv # 0 THEN "udelay" ELSE "after_loop"
    /\ UNCHANGED << stack, rv, cmd, tape_index, i, ret2, cmdRet, reported, idle,
                    gpiov, busv, callv >>

\* lp5569_cmd: udelay(100 * 1000) after a failed attempt, then i++
cmd_udelay ==
    /\ pc = "udelay"
    /\ cmdLog' = Append(cmdLog, Event("udelay", RETRY_DELAY_US))
    /\ i' = i + 1
    /\ pc' = "loop_test"
    /\ UNCHANGED << stack, rv, cmd, tape_index, ret, ret2, cmdRet, reported, idle,
                    gpiov, busv, callv >>

\* lp5569_cmd: if (ret != 0) goto deinit; else lp5569_play_tape(tape_index)
cmd_after_loop ==
    /\ pc = "after_loop"
    /\ IF ret # 0
       THEN /\ pc' = "deinit"
            /\ UNCHANGED << stack, cmdLog, regLog >>
       ELSE /\ Call("lp5569_play_tape", "play_ret")
            /\ cmdLog' = Append(cmdLog, Event("lp5569_play_tape", tape_index))
            /\ regLog' = << >>
    /\ UNCHANGED << rv, cmd, tape_index, i, ret, ret2, cmdRet, reported, idle,
                    gpiov, scl, sda, busLog, sampled, callv >>

\* lp5569_play_tape as it would be if it always played the first tape
lp5569_play_tape_first_tape ==
    /\ pc = "lp5569_play_tape"
    /\ IF tape_index >= NumTapes
       THEN /\ rv' = -1
            /\ Return
            /\ UNCHANGED rp
       ELSE /\ rp' = [ mux |-> led_mux_tapes[1],
                       mux_len |-> LP5569_MAX_PROGRAM_LEN,
                       prog |-> led_prog,
                       prog_len |-> Len(led_prog) ]
            /\ Call("lp5569_run_program", "play_tape_ret")
            /\ UNCHANGED rv
    /\ UNCHANGED << cmdv, gpiov, busv, initStep, bulk, wdata >>

\* lp5569_play_tape: the index check and the call of lp5569_run_program
lp5569_play_tape ==
    /\ pc = "lp5569_play_tape"
    /\ IF tape_index >= NumTapes
       THEN /\ rv' = -1
            /\ Return
            /\ UNCHANGED rp
       ELSE /\ rp' = [ mux |-> led_mux_tapes[tape_index + 1],
                       mux_len |-> LP5569_MAX_PROGRAM_LEN,
                       prog |-> led_prog,
                       prog_len |-> Len(led_prog) ]
            /\ Call("lp5569_run_program", "play_tape_ret")
            /\ UNCHANGED rv
    /\ UNCHANGED << cmdv, gpiov, busv, initStep, bulk, wdata >>

\* lp5569_play_tape: lp5569_run_program has returned; its value is returned
play_tape_ret ==
    /\ pc = "play_tape_ret"
    /\ Return
    /\ UNCHANGED << rv, cmdv, gpiov, busv, callv >>

\* lp5569_cmd: the result of lp5569_play_tape; both outcomes reach deinit
cmd_play_ret ==
    /\ pc = "play_ret"
    /\ ret' = rv
    /\ cmdLog' = Append(cmdLog, Event("play_tape_ret", rv))
    /\ pc' = "deinit"
    /\ UNCHANGED << stack, rv, cmd, tape_index, i, ret2, cmdRet, reported, idle,
                    gpiov, busv, callv >>

\* lp5569_cmd: deinit: i2c_deinit and the return
cmd_deinit ==
    /\ pc = "deinit"
    /\ \E f1 \in FreeResults(held, SCL_PIN) :
       \E f2 \in FreeResults(gpio_free(held, SCL_PIN, f1), SDA_PIN) :
          LET d == i2c_deinit(held, f1, f2)
          IN  /\ held' = d.held
              /\ gpioLog' = gpioLog \o d.log
              /\ cmdLog' = Append(cmdLog, Event("i2c_deinit", d.ret))
              /\ ret2' = Ret2(d.ret)
              /\ IF Ret2(d.ret) # 0
                 THEN /\ reported' = Append(reported, DeinitError(ret, Ret2(d.ret)))
                      /\ cmdRet' = << cmd_process_error(DeinitError(ret, Ret2(d.ret))) >>
                 ELSE /\ cmdRet' = << 0 >>
                      /\ UNCHANGED reported
    /\ pc' = "cmd_return"
    /\ UNCHANGED << stack, rv, cmd, tape_index, i, ret, idle, busv, callv >>

\* do_lp5569_error as it would be if it returned like do_lp5569
do_return_always ==
    /\ pc = "cmd_return"
    /\ pc' = "done"
    /\ UNCHANGED << stack, rv, cmdv, gpiov, busv, callv >>

\* do_lp5569 returns what lp5569_cmd returned; do_lp5569_error goes on to
\* its while (1) loop
do_return ==
    /\ pc = "cmd_return"
    /\ pc' = IF cmd = "lp5569_error" THEN "halt" ELSE "done"
    /\ UNCHANGED << stack, rv, cmdv, gpiov, busv, callv >>

\* do_lp5569_error: while (1) udelay(100 * 1000)
halt_loop ==
    /\ pc = "halt"
    /\ idle' = IF idle < MaxIdle THEN idle + 1 ELSE idle
    /\ UNCHANGED << ctlv, cmd, tape_index, i, ret, ret2, cmdRet, reported, cmdLog,
                    gpiov, busv, callv >>


\* the length check as it would be with && in place of ||
rp_check_both ==
    /\ pc = "lp5569_run_program"
    /\ IF rp.mux_len > LP5569_MAX_PROGRAM_LEN /\ rp.prog_len > LP5569_MAX_PROGRAM_LEN
       THEN rv' = -1 /\ Return
       ELSE pc' = "rp_load" /\ UNCHANGED << stack, rv >>
    /\ UNCHANGED << cmdv, gpiov, busv, callv >>

\* lp5569_run_program: the length check
rp_check ==
    /\ pc = "lp5569_run_program"
    /\ IF rp.mux_len > LP5569_MAX_PROGRAM_LEN \/ rp.prog_len > LP5569_MAX_PROGRAM_LEN
       THEN rv' = -1 /\ Return
       ELSE pc' = "rp_load" /\ UNCHANGED << stack, rv >>
    /\ UNCHANGED << cmdv, gpiov, busv, callv >>

\* lp5569_run_program as it would be without the switch to load mode
rp_load_skipped ==
    /\ pc = "rp_load"
    /\ pc' = "rp_page_mux"
    /\ UNCHANGED << stack, rv, cmdv, gpiov, busv, callv >>

\* lp5569_run_program: lp5569_engine_load_program
rp_load ==
    /\ pc = "rp_load"
    /\ \E acks \in AckAnswers : WriteRegister(LP5569_REG_LED_ENGINE_CONTROL2, 84, acks)
    /\ IF rv' # 0 THEN Return ELSE pc' = "rp_page_mux" /\ UNCHANGED stack
    /\ UNCHANGED << cmdv, gpiov, callv >>

\* lp5569_run_program: lp5569_mem_page_select(bus, true), then the bulk
\* write of the mux table
rp_page_mux ==
    /\ pc = "rp_page_mux"
    /\ \E acks \in AckAnswers :
          WriteRegister(LP5569_REG_PROG_MEM_PAGE_SELECT, MemPage(TRUE), acks)
    /\ IF rv' # 0
       THEN Return /\ UNCHANGED bulk
       ELSE /\ Call("lp5569_write_bulk", "rp_mux_ret")
            /\ bulk' = [ reg |-> LP5569_REG_PROGRAM_MEM_00, buf |-> rp.mux,
                         size |-> rp.mux_len, k |-> 0 ]
    /\ UNCHANGED << cmdv, gpiov, initStep, rp, wdata >>

\* the bulk write as it would be if a failed write did not end the loop
lp5569_write_bulk_continue ==
    /\ pc = "lp5569_write_bulk"
    /\ IF bulk.k < bulk.size
       THEN /\ \E acks \in AckAnswers :
                  WriteRegister(BulkReg(bulk.reg, bulk.k), bulk.buf[bulk.k + 1], acks)
            /\ bulk' = [bulk EXCEPT !.k = @ + 1]
            /\ UNCHANGED << pc, stack >>
       ELSE /\ rv' = 0
            /\ Return
            /\ UNCHANGED << busv, bulk >>
    /\ UNCHANGED << cmdv, gpiov, initStep, rp, wdata >>

\* lp5569_write_bulk: one turn of the for loop, or its end
lp5569_write_bulk ==
    /\ pc = "lp5569_write_bulk"
    /\ IF bulk.k < bulk.size
       THEN /\ \E acks \in AckAnswers :
                  WriteRegister(BulkReg(bulk.reg, bulk.k), bulk.buf[bulk.k + 1], acks)
            /\ IF rv' # 0
               THEN Return /\ UNCHANGED bulk
               ELSE bulk' = [bulk EXCEPT !.k = @ + 1] /\ UNCHANGED << pc, stack >>
       ELSE /\ rv' = 0
            /\ Return
            /\ UNCHANGED << busv, bulk >>
    /\ UNCHANGED << cmdv, gpiov, initStep, rp, wdata >>

\* lp5569_run_program: the result of the bulk write of the mux table
rp_mux_ret ==
    /\ pc = "rp_mux_ret"
    /\ IF rv # 0 THEN Return ELSE pc' = "rp_page_prog" /\ UNCHANGED stack
    /\ UNCHANGED << rv, cmdv, gpiov, busv, callv >>

\* lp5569_run_program: lp5569_mem_page_select(bus, false), then the bulk
\* write of the program
rp_page_prog ==
    /\ pc = "rp_page_prog"
    /\ \E acks \in AckAnswers :
          WriteRegister(LP5569_REG_PROG_MEM_PAGE_SELECT, MemPage(FALSE), acks)
    /\ IF rv' # 0
       THEN Return /\ UNCHANGED bulk
       ELSE /\ Call("lp5569_write_bulk", "rp_prog_ret")
            /\ bulk' = [ reg |-> LP5569_REG_PROGRAM_MEM_00, buf |-> rp.prog,
                         size |-> rp.prog_len, k |-> 0 ]
    /\ UNCHANGED << cmdv, gpiov, initStep, rp, wdata >>

\* lp5569_run_program: the result of the bulk write of the program
rp_prog_ret ==
    /\ pc = "rp_prog_ret"
    /\ IF rv # 0 THEN Return ELSE pc' = "rp_halt" /\ UNCHANGED stack
    /\ UNCHANGED << rv, cmdv, gpiov, busv, callv >>

\* lp5569_run_program: lp5569_engine_halt
rp_halt ==
    /\ pc = "rp_halt"
    /\ \E acks \in AckAnswers : WriteRegister(LP5569_REG_LED_ENGINE_CONTROL2, 0, acks)
    /\ IF rv' # 0 THEN Return ELSE pc' = "lp5569_engine_run" /\ UNCHANGED stack
    /\ UNCHANGED << cmdv, gpiov, callv >>

\* lp5569_engine_run: engine control 2 to run mode; a failure is returned
\* through lp5569_run_program
lp5569_engine_run ==
    /\ pc = "lp5569_engine_run"
    /\ \E acks \in AckAnswers : WriteRegister(LP5569_REG_LED_ENGINE_CONTROL2, 128, acks)
    /\ IF rv' # 0 THEN Return ELSE pc' = "engine_free_run" /\ UNCHANGED stack
    /\ UNCHANGED << cmdv, gpiov, callv >>

\* lp5569_engine_run: engine control 1 to free run; its result is the result
\* of lp5569_run_program
engine_free_run ==
    /\ pc = "engine_free_run"
    /\ \E acks \in AckAnswers : WriteRegister(LP5569_REG_LED_ENGINE_CONTROL1, 128, acks)
    /\ Return
    /\ UNCHANGED << cmdv, gpiov, callv >>

\* i2c_write_byte called on its own
write_byte ==
    /\ pc = "i2c_write_byte"
    /\ \E nack \in GpioReadResults :
          \E r \in { i2c_write_byte(wdata, nack) } :
              /\ busLog' = r.trace
              /\ scl' = LastLevel(r.trace, "set_scl", scl)
              /\ sda' = LastLevel(r.trace, "set_sda", sda)
              /\ sampled' = SampledBits(r.trace)
              /\ rv' = r.ret
    /\ Return
    /\ UNCHANGED << cmdv, gpiov, regLog, callv >>

(* ------------------------------------------------------------------ *)
(* Specifications                                                       *)
(* ------------------------------------------------------------------ *)
\* nothing has run yet: no line held, the bus idle (both lines high)
Fresh ==
    /\ rv = 0
    /\ i = 0 /\ ret = 0 /\ ret2 = 0
    /\ cmdRet = << >> /\ reported = << >> /\ cmdLog = << >> /\ idle = 0
    /\ held = { } /\ gpioLog = << >>
    /\ scl = 1 /\ sda = 1 /\ busLog = << >> /\ sampled = << >> /\ regLog = << >>
    /\ initStep = 0

\* the two commands: lp5569 plays tape 0, lp5569_error plays tape 1
Init ==
    /\ Fresh
    /\ pc = "lp5569_cmd" /\ stack = << >>
    /\ \E c \in { [cmd |-> "lp5569", tape |-> 0], [cmd |-> "lp5569_error", tape |-> 1] } :
          cmd = c.cmd /\ tape_index = c.tape
    /\ rp = NoRp /\ bulk = NoBulk /\ wdata = 0

Next ==
    \/ cmd_i2c_init \/ cmd_loop_test \/ lp5569_init \/ cmd_init_ret \/ cmd_udelay
    \/ cmd_after_loop \/ lp5569_play_tape \/ play_tape_ret \/ cmd_play_ret
    \/ rp_check \/ rp_load \/ rp_page_mux \/ lp5569_write_bulk \/ rp_mux_ret
    \/ rp_page_prog \/ rp_prog_ret \/ rp_halt \/ lp5569_engine_run \/ engine_free_run
    \/ cmd_deinit \/ do_return \/ halt_loop

Spec == Init /\ [][Next]_vars

\* do_lp5569_error on its own: lp5569_cmd(cmdtp, 1), then the idle loop
InitError ==
    /\ Fresh
    /\ pc = "lp5569_cmd" /\ stack = << >>
    /\ cmd = "lp5569_error" /\ tape_index = 1
    /\ rp = NoRp /\ bulk = NoBulk /\ wdata = 0

SpecError == InitError /\ [][Next]_vars

\* lp5569_run_program called on its own, with a tape and the program and
\* lengths up to and beyond the 32 bytes of a page
RunLens == (0..MaxShortLen) \cup { LP5569_MAX_PROGRAM_LEN, LP5569_MAX_PROGRAM_LEN + 1, 255 }

InitRun ==
    /\ Fresh
    /\ pc = "lp5569_run_program" /\ stack = << "returned" >>
    /\ cmd = "none" /\ tape_index = 0
    /\ \E t \in 1..NumTapes : \E m \in RunLens : \E p \in RunLens :
          rp = [ mux |-> led_mux_tapes[t], mux_len |-> m, prog |-> led_prog, prog_len |-> p ]
    /\ bulk = NoBulk /\ wdata = 0

NextRun ==
    \/ rp_check \/ rp_load \/ rp_page_mux \/ lp5569_write_bulk \/ rp_mux_ret
    \/ rp_page_prog \/ rp_prog_ret \/ rp_halt \/ lp5569_engine_run \/ engine_free_run

SpecRun == InitRun /\ [][NextRun]_vars

\* lp5569_write_bulk called on its own
BulkBufs == { SubSeq(b, 1, n) : b \in { led_prog, led_mux_tapes[2] }, n \in 0..MaxBulkLen }

InitBulk ==
    /\ Fresh
    /\ pc = "lp5569_write_bulk" /\ stack = << "returned" >>
    /\ cmd = "none" /\ tape_index = 0
    /\ rp = NoRp /\ wdata = 0
    /\ \E r \in BulkBases : \E b \in BulkBufs :
          bulk = [ reg |-> r, buf |-> b, size |-> Len(b), k |-> 0 ]

NextBulk == lp5569_write_bulk

SpecBulk == InitBulk /\ [][NextBulk]_vars

\* i2c_write_byte called on its own, with every byte value
InitByte ==
    /\ Fresh
    /\ pc = "i2c_write_byte" /\ stack = << "returned" >>
    /\ cmd = "none" /\ tape_index = 0
    /\ rp = NoRp /\ bulk = NoBulk
    /\ wdata \in Byte

NextByte == write_byte

SpecByte == InitByte /\ [][NextByte]_vars

\* lp5569_play_tape called on its own, with tape indices in and out of range
InitPlay ==
    /\ Fresh
    /\ pc = "lp5569_play_tape" /\ stack = << "returned" >>
    /\ cmd = "none" /\ tape_index \in 0..MaxTapeIndex
    /\ rp = NoRp /\ bulk = NoBulk /\ wdata = 0

NextPlay ==
    \/ lp5569_play_tape \/ play_tape_ret
    \/ rp_check \/ rp_load \/ rp_page_mux \/ lp5569_write_bulk \/ rp_mux_ret
    \/ rp_page_prog \/ rp_prog_ret \/ rp_halt \/ lp5569_engine_run \/ engine_free_run

SpecPlay == InitPlay /\ [][NextPlay]_vars

\* i2c_set_register called on its own through lp5569_set_register, several
\* times in a row from an idle bus, with the digital-I/O layer free to fail a
\* gpio_direction_output of the call; gpioLog holds that failed call
SetRegisterValues == { 0, 165, 255 }

set_register_call ==
    /\ pc = "i2c_set_register"
    /\ Len(regLog) < MaxCalls
    /\ \E acks \in AckAnswers :
          WriteRegister(LP5569_REG_LED_ENGINE_CONTROL2, wdata, acks)
    /\ \E line \in { SCL_PIN, SDA_PIN } : \E o \in OutputResults :
          gpioLog' = IF gpio_write(o) = 0 THEN << >>
                     ELSE << GpioOp("direction_output", line, gpio_write(o)) >>
    /\ UNCHANGED << pc, stack, cmdv, held, callv >>

InitReg ==
    /\ Fresh
    /\ pc = "i2c_set_register" /\ stack = << "returned" >>
    /\ cmd = "none" /\ tape_index = 0
    /\ rp = NoRp /\ bulk = NoBulk
    /\ wdata \in SetRegisterValues

NextReg == set_register_call

SpecReg == InitReg /\ [][NextReg]_vars

\* i2c_init and i2c_deinit called on their own, in any order; cmdLog holds
\* the calls made and their results
lifecycle_init ==
    /\ pc = "lifecycle"
    /\ Len(cmdLog) < MaxLifecycleCalls
    /\ \E r1 \in RequestResults(held, SCL_PIN) :
       \E r2 \in RequestResults(gpio_request(held, SCL_PIN, r1), SDA_PIN) :
       \E f \in FreeResults(gpio_request(held, SCL_PIN, r1), SCL_PIN) :
          LET r == i2c_init(held, r1, r2, f)
          IN  /\ held' = r.held
              /\ gpioLog' = gpioLog \o r.log
              /\ rv' = r.ret
              /\ cmdLog' = Append(cmdLog, Event("i2c_init", r.ret))
    /\ UNCHANGED << pc, stack, cmd, tape_index, i, ret, ret2, cmdRet, reported, idle,
                    busv, callv >>

lifecycle_deinit ==
    /\ pc = "lifecycle"
    /\ Len(cmdLog) < MaxLifecycleCalls
    /\ \E f1 \in FreeResults(held, SCL_PIN) :
       \E f2 \in FreeResults(gpio_free(held, SCL_PIN, f1), SDA_PIN) :
          LET d == i2c_deinit(held, f1, f2)
          IN  /\ held' = d.held
              /\ gpioLog' = gpioLog \o d.log
              /\ rv' = d.ret
              /\ cmdLog' = Append(cmdLog, Event("i2c_deinit", d.ret))
    /\ UNCHANGED << pc, stack, cmd, tape_index, i, ret, ret2, cmdRet, reported, idle,
                    busv, callv >>

InitLifecycle ==
    /\ Fresh
    /\ pc = "lifecycle" /\ stack = << >>
    /\ cmd = "none" /\ tape_index = 0
    /\ rp = NoRp /\ bulk = NoBulk /\ wdata = 0

NextLifecycle == lifecycle_init \/ lifecycle_deinit

SpecLifecycle == InitLifecycle /\ [][NextLifecycle]_vars


(* ------------------------------------------------------------------ *)
(* Properties                                                           *)
(* ------------------------------------------------------------------ *)
\* the entries of a trace made by op, in order
Ops(trace, op) == SelectSeq(trace, LAMBDA e : e.op = op)
CountOp(trace, op) == Cardinality({ k \in 1..Len(trace) : trace[k].op = op })
\* bit n of byte b
Bit(b, n) == (b \div (2 ^ n)) % 2
LineOps == { "set_scl", "set_sda", "get_sda" }
Last(s) == s[Len(s)]

\* C1: every i2c_set_register call issues exactly one start condition and
\* exactly one stop condition, whatever the three acknowledgment bits are;
\* the start is the first bus operation of the call, the stop the last.
C1_OneStartOneStop ==
    busLog # << >> =>
        /\ CountOp(busLog, "i2c_start") = 1
        /\ CountOp(busLog, "i2c_stop") = 1
        /\ busLog[1].op = "i2c_start"
        /\ \A k \in 2..4 : busLog[k].op \in LineOps
        /\ Len(busLog) >= 9
        /\ busLog[Len(busLog) - 4].op = "i2c_stop"
        /\ \A k \in (Len(busLog) - 3)..Len(busLog) : busLog[k].op \in LineOps

\* C1 witness: a call whose address byte was not acknowledged has returned
C1_Witness ==
    /\ busLog # << >>
    /\ sampled = << 1 >>
    /\ regLog # << >> /\ Last(regLog).ret = -1

\* C2: in i2c_set_register the acknowledgment is checked after each byte:
\* after a nonzero sample no later byte is written, the stop is still
\* issued, the call returns nonzero and both lines are left high; the call
\* returns 0 only if all three bytes were sampled as 0.
C2_AckCheckedAfterEachByte ==
    regLog # << >> =>
        LET call == Last(regLog)
            bytes == Ops(busLog, "i2c_write_byte")
            n == Len(sampled)
        IN  /\ n \in 1..3
            /\ Len(bytes) = n
            /\ \A k \in 1..n : bytes[k].val = << 100, call.reg, call.val >>[k]
            /\ \A k \in 1..n : sampled[k] # 0 => k = n /\ call.ret # 0
            /\ call.ret = 0 => n = 3 /\ \A k \in 1..3 : sampled[k] = 0
            /\ call.ret # 0 => sampled[n] # 0
            /\ Last(busLog) = [op |-> "set_sda", val |-> 1]
            /\ busLog[Len(busLog) - 4].op = "i2c_stop"
            /\ scl = 1 /\ sda = 1

\* C2 witness: the register byte was sampled as not acknowledged, the call
\* has returned a failure after two bytes
C2_Witness ==
    /\ regLog # << >>
    /\ sampled = << 0, 1 >>
    /\ Last(regLog).ret # 0
    /\ CountOp(busLog, "i2c_write_byte") = 2

\* C3: for every byte b, i2c_write_byte makes exactly 8 write_bit calls whose
\* arguments are bit 7 down to bit 0 of b, each 0 or 1, then releases the
\* data line once and makes one read_bit whose sample it returns.
C3_WriteBitArgsAreBits ==
    pc = "returned" =>
        LET wb == Ops(busLog, "i2c_write_bit")
        IN  /\ Len(wb) = 8
            /\ \A j \in 1..8 : wb[j].val \in { 0, 1 } /\ wb[j].val = Bit(wdata, 8 - j)
            /\ CountOp(busLog, "i2c_sda_high") = 1
            /\ CountOp(busLog, "i2c_read_bit") = 1
            /\ sampled = << rv >>


\* the (register, value) pairs of a register-write log
WritesOf(log) == [ j \in 1..Len(log) |-> RegVal(log[j].reg, log[j].val) ]

MemWrites(buf, len) == [ j \in 1..len |-> RegVal(80 + (j - 1), buf[j]) ]

\* C5 as stated: after a successful lp5569_run_program the register-write
\* log is page-select=1, the mux bytes, page-select=0, the program bytes,
\* then engine-control-2 = 0x54, 0x00, 0x80, then engine-control-1 = 0x80.
C5_LoadModeAfterUpload ==
    pc = "returned" /\ rv = 0 =>
        WritesOf(regLog) =
            << RegVal(79, 1) >> \o MemWrites(rp.mux, rp.mux_len)
            \o << RegVal(79, 0) >> \o MemWrites(rp.prog, rp.prog_len)
            \o << RegVal(2, 84), RegVal(2, 0), RegVal(2, 128), RegVal(1, 128) >>

\* C5 amended: the log is engine-control-2 = 0x54 (load) first, then
\* page-select=1, the mux bytes, page-select=0, the program bytes, then
\* engine-control-2 = 0x00 (halt), 0x80 (run), then engine-control-1 = 0x80.
C5_LoadModeBeforeUpload ==
    pc = "returned" /\ rv = 0 =>
        WritesOf(regLog) =
            << RegVal(2, 84), RegVal(79, 1) >> \o MemWrites(rp.mux, rp.mux_len)
            \o << RegVal(79, 0) >> \o MemWrites(rp.prog, rp.prog_len)
            \o << RegVal(2, 0), RegVal(2, 128), RegVal(1, 128) >>

\* C5 witness: a 32-byte mux table and a 32-byte program were uploaded and
\* the engine started, all 70 writes acknowledged
C5_Witness ==
    /\ pc = "returned" /\ rv = 0
    /\ rp.mux_len = 32 /\ rp.prog_len = 32
    /\ Len(regLog) = 70
    /\ \A j \in 1..70 : regLog[j].ret = 0

InitEvents == { n \in 1..Len(cmdLog) : cmdLog[n].ev = "lp5569_init" }
FailedInits == { n \in InitEvents : cmdLog[n].val # 0 }
DelayEvents == { n \in 1..Len(cmdLog) : cmdLog[n].ev = "udelay" }
PlayEvents == { n \in 1..Len(cmdLog) : cmdLog[n].ev = "lp5569_play_tape" }
DeinitEvents == { n \in 1..Len(cmdLog) : cmdLog[n].ev = "i2c_deinit" }
I2cInitOk == cmdLog # << >> /\ cmdLog[1] = Event("i2c_init", 0)
CmdOver == pc \in { "cmd_return", "done", "halt" }

\* C6: lp5569_cmd attempts lp5569_init at most 15 times and stops at the
\* first success; a 100 ms delay follows each failed attempt and precedes
\* the next one; after k-1 failures and a success exactly k attempts were
\* made and lp5569_play_tape is called once, with the requested index; after
\* 15 failures lp5569_play_tape is never called.
C6_BoundedInitRetries ==
    LET inits == InitEvents
        failed == Cardinality(FailedInits)
        plays == PlayEvents
    IN  /\ Cardinality(inits) <= 15
        /\ \A n \in inits :
              /\ n > 2 => cmdLog[n - 1] = Event("udelay", 100000)
              /\ cmdLog[n].val # 0 /\ n < Len(cmdLog) =>
                    cmdLog[n + 1] = Event("udelay", 100000)
              /\ cmdLog[n].val = 0 =>
                    /\ \A m \in (n + 1)..Len(cmdLog) : cmdLog[m].ev # "lp5569_init"
                    /\ n < Len(cmdLog) =>
                          cmdLog[n + 1] = Event("lp5569_play_tape", tape_index)
        /\ \A n \in DelayEvents :
              cmdLog[n - 1].ev = "lp5569_init" /\ cmdLog[n - 1].val # 0
        /\ Cardinality(plays) <= 1
        /\ \A n \in plays :
              /\ cmdLog[n - 1] = Event("lp5569_init", 0)
              /\ Cardinality(inits) = failed + 1
              /\ Cardinality(DelayEvents) = failed
        /\ failed = 15 => plays = { }
        /\ CmdOver /\ I2cInitOk => (plays = { } <=> failed = 15)

\* C6 witness: two failed attempts, each followed by the delay, a third
\* attempt that succeeded, then lp5569_play_tape called with the index
C6_Witness ==
    /\ Len(cmdLog) = 7
    /\ cmdLog[2].ev = "lp5569_init" /\ cmdLog[2].val # 0
    /\ cmdLog[3] = Event("udelay", 100000)
    /\ cmdLog[4].ev = "lp5569_init" /\ cmdLog[4].val # 0
    /\ cmdLog[5] = Event("udelay", 100000)
    /\ cmdLog[6] = Event("lp5569_init", 0)
    /\ cmdLog[7] = Event("lp5569_play_tape", tape_index)

\* the initialization retries were exhausted, or lp5569_play_tape failed
OperationalFailure ==
    \/ Cardinality(FailedInits) = 15
    \/ \E n \in 1..Len(cmdLog) : cmdLog[n].ev = "play_tape_ret" /\ cmdLog[n].val # 0

\* C7: when all 15 initialization attempts fail or lp5569_play_tape fails,
\* lp5569_cmd reports that error and does not return 0, whether the bus
\* teardown succeeds or fails.
C7_OperationalErrorSurfaced ==
    pc = "cmd_return" /\ I2cInitOk /\ OperationalFailure =>
        /\ cmdRet # << 0 >>
        /\ reported # << >>
        /\ Last(reported) = ret

\* C8: on every exit path of lp5569_cmd after a successful i2c_init,
\* i2c_deinit is called exactly once and requests the release of both the
\* clock line and the data line, even when releasing the first one fails.
C8_TeardownReleasesBothLines ==
    CmdOver /\ I2cInitOk =>
        /\ Cardinality(DeinitEvents) = 1
        /\ \E n \in 1..Len(gpioLog) : gpioLog[n].op = "free" /\ gpioLog[n].line = 3
        /\ \E n \in 1..Len(gpioLog) : gpioLog[n].op = "free" /\ gpioLog[n].line = 2

I2cInitFailed == cmdLog # << >> /\ cmdLog[1].ev = "i2c_init" /\ cmdLog[1].val # 0
NoBusIO == busLog = << >> /\ regLog = << >> /\ sampled = << >> /\ scl = 1 /\ sda = 1

C10_OversizeRejectedWithoutBusIO ==
    rp.mux_len > 32 \/ rp.prog_len > 32 =>
        /\ NoBusIO
        /\ pc \in { "lp5569_run_program", "returned" }
        /\ pc = "returned" => rv # 0

\* C10 witness: a 33-byte program with a mux table that fits was rejected
C10_Witness ==
    /\ pc = "returned"
    /\ rp.mux_len <= 32 /\ rp.prog_len = 33
    /\ rv = -1
    /\ regLog = << >>

\* the two mux tables and the program as the source lists them
Tape0Mux == << 0, 2, 0, 32, 0, 128, 0, 4, 0, 16, 1, 0 >> \o [k \in 1..20 |-> 0]
Tape1Mux == << 0, 73, 0, 73, 0, 73, 0, 73, 0, 73, 0, 73 >> \o [k \in 1..20 |-> 0]
FixedProg ==
    << 156, 16, 156, 149, 64, 255, 126, 0, 64, 0, 157, 128, 160, 2 >> \o [k \in 1..18 |-> 0]

\* C11: lp5569_play_tape with an index of 2 or more returns the
\* out-of-range error (-1) and performs no bus I/O; with index 0 or 1 it
\* calls lp5569_run_program with exactly that tape's 32-byte mux table and
\* the fixed 32-byte program.
C11_TapeIndexChecked ==
    /\ tape_index >= 2 =>
          /\ NoBusIO /\ rp = NoRp
          /\ pc \in { "lp5569_play_tape", "returned" }
          /\ pc = "returned" => rv = -1
    /\ tape_index < 2 /\ pc # "lp5569_play_tape" =>
          /\ rp.mux = led_mux_tapes[tape_index + 1]
          /\ rp.mux = (IF tape_index = 0 THEN Tape0Mux ELSE Tape1Mux)
          /\ rp.mux_len = 32 /\ Len(rp.mux) = 32
          /\ rp.prog = led_prog /\ rp.prog = FixedProg
          /\ rp.prog_len = 32 /\ Len(rp.prog) = 32

\* C11 witness: tape 1 was played to the end, the second byte written to
\* program memory being that tape's 0x49
C11_Witness ==
    /\ pc = "returned" /\ tape_index = 1 /\ rv = 0
    /\ Len(regLog) = 70
    /\ regLog[4] = [reg |-> 81, val |-> 73, ret |-> 0]

\* C11 second case: index 2 was refused
C11_WitnessRefused == pc = "returned" /\ tape_index = 2 /\ rv = -1

\* a sampled acknowledgment sequence that ends in a NACK (the line read high)
EndsInNack(s) == s # << >> /\ Last(s) = 1

\* C12: the failure of i2c_set_register identifies which byte was not
\* acknowledged: of two calls that were NACKed at different bytes (address,
\* register, value) the results differ.
C12_NackIdentifiesByte ==
    [][ ( /\ Len(regLog') = Len(regLog) + 1
          /\ EndsInNack(sampled) /\ EndsInNack(sampled')
          /\ Len(sampled) # Len(sampled') )
        => rv' # rv ]_vars

\* A bound on the steps lp5569_cmd still has to take, by position: the
\* steps after the retry loop, the steps left in the running attempt, and
\* 20 for every attempt the loop may still start.
StepsLeft ==
    LET attempts == (INIT_RETRIES - i) * 20 + 100
    IN  CASE pc = "lp5569_cmd" -> 1000
          [] pc = "loop_test" -> attempts + 19
          [] pc = "lp5569_init" -> attempts + 5 + (14 - initStep)
          [] pc = "init_ret" -> attempts + 4
          [] pc = "udelay" -> attempts + 3
          [] pc = "after_loop" -> 100
          [] pc = "lp5569_play_tape" -> 99
          [] pc = "lp5569_run_program" -> 98
          [] pc = "rp_load" -> 97
          [] pc = "rp_page_mux" -> 96
          [] pc = "lp5569_write_bulk" /\ Head(stack) = "rp_mux_ret" -> 60 + (bulk.size - bulk.k)
          [] pc = "rp_mux_ret" -> 59
          [] pc = "rp_page_prog" -> 58
          [] pc = "lp5569_write_bulk" /\ Head(stack) = "rp_prog_ret" -> 20 + (bulk.size - bulk.k)
          [] pc = "rp_prog_ret" -> 19
          [] pc = "rp_halt" -> 18
          [] pc = "lp5569_engine_run" -> 17
          [] pc = "engine_free_run" -> 16
          [] pc = "play_tape_ret" -> 15
          [] pc = "play_ret" -> 14
          [] pc = "deinit" -> 13
          [] OTHER -> 0

\* C13: lp5569_cmd always terminates (every step it takes brings its return
\* nearer, and it is never stuck before it), and do_lp5569_error never
\* returns: once its lp5569_cmd(1) has returned it stays in its idle loop
\* and performs no further bus I/O and no further digital-I/O request.
C13_ErrorCommandNeverReturns ==
    /\ [][~CmdOver => StepsLeft' < StepsLeft /\ StepsLeft' >= 0]_vars
    /\ [](~CmdOver => ENABLED Next)
    /\ [](cmd = "lp5569_error" /\ pc # "done")
    /\ [](pc = "cmd_return" => ENABLED do_return)
    /\ [][pc = "halt" => pc' = "halt" /\ busv' = busv /\ gpiov' = gpiov]_vars

\* C13 witness: lp5569_cmd(1) played tape 1 to the end and the idle loop of
\* do_lp5569_error has turned
C13_Witness ==
    /\ cmd = "lp5569_error" /\ pc = "halt" /\ idle > 0
    /\ Len(regLog) = 70 /\ Last(regLog).ret = 0

\* whether the line of the n-th digital-I/O request was held before it
HeldBefore(n) ==
    LET prior == { m \in 1..(n - 1) : gpioLog[m].line = gpioLog[n].line /\ gpioLog[m].res = 0 }
    IN  /\ prior # { }
        /\ gpioLog[CHOOSE m \in prior : \A k \in prior : k <= m].op = "request"
\* the digital-I/O layer refused nothing but the request of a line already
\* held and the release of a line not held
OnlyRefusals ==
    \A n \in 1..Len(gpioLog) :
        gpioLog[n].res # 0 =>
            IF gpioLog[n].op = "request" THEN HeldBefore(n) ELSE ~HeldBefore(n)
\* the calls so far are i2c_init, i2c_deinit, i2c_init, i2c_deinit, in turn
PairedCalls ==
    \A n \in 1..Len(cmdLog) :
        cmdLog[n].ev = IF n % 2 = 1 THEN "i2c_init" ELSE "i2c_deinit"

\* C14: i2c_init, i2c_deinit, i2c_init, i2c_deinit against a digital-I/O
\* layer that refuses a line already held (and nothing else): none of the
\* four calls returns an error, both lines are held after each i2c_init and
\* no line is held after each i2c_deinit.
C14_InitDeinitRepeatable ==
    PairedCalls /\ OnlyRefusals =>
        /\ \A n \in 1..Len(cmdLog) : cmdLog[n].val = 0
        /\ \A n \in 1..Len(gpioLog) : gpioLog[n].res = 0
        /\ cmdLog # << >> /\ Last(cmdLog).ev = "i2c_deinit" => held = { }
        /\ cmdLog # << >> /\ Last(cmdLog).ev = "i2c_init" => held = { SCL_PIN, SDA_PIN }

\* C14 witness: the four calls were made in turn and the last release left
\* no line held
C14_Witness ==
    /\ Len(cmdLog) = 4 /\ PairedCalls /\ OnlyRefusals
    /\ Len(gpioLog) = 8
    /\ rv = 0 /\ held = { }

\* the register writes of a complete lp5569_run_program, in order
RunOrder(r) ==
    << RegVal(2, 84), RegVal(79, 1) >> \o MemWrites(r.mux, r.mux_len)
    \o << RegVal(79, 0) >> \o MemWrites(r.prog, r.prog_len)
    \o << RegVal(2, 0), RegVal(2, 128), RegVal(1, 128) >>
\* the registers of the page select and of program memory
UploadRegs == { 79 } \cup (80..111)

\* C15: lp5569_run_program writes, in this order, engine-control-2 = 0x54
\* (load), page-select = 1, the mux bytes from 0x50, page-select = 0, the
\* program bytes from 0x50, engine-control-2 = 0x00 (halt), 0x80 (run),
\* engine-control-1 = 0x80; at every moment the writes made are the start of
\* that order, so every write to the page select and to program memory
\* comes after the acknowledged load write and before the halt write.
C15_UploadBetweenLoadAndHalt ==
    IF rp.mux_len > 32 \/ rp.prog_len > 32
    THEN regLog = << >>
    ELSE /\ Len(regLog) <= Len(RunOrder(rp))
         /\ WritesOf(regLog) = SubSeq(RunOrder(rp), 1, Len(regLog))
         /\ \A j \in 1..Len(regLog) :
               regLog[j].reg \in UploadRegs =>
                   /\ j > 1 /\ regLog[1] = [reg |-> 2, val |-> 84, ret |-> 0]
                   /\ \A b \in 1..j : ~(regLog[b].reg = 2 /\ regLog[b].val \in { 0, 128 })
                   /\ \A b \in 1..j : regLog[b].reg # 1
         /\ pc = "returned" /\ rv = 0 => Len(regLog) = Len(RunOrder(rp))

\* C15 witness: a run was cut short by the halt write, after the load write
\* and one mux byte and one program byte had been written
C15_Witness ==
    /\ pc = "returned" /\ rv # 0
    /\ rp.mux_len = 1 /\ rp.prog_len = 1
    /\ Len(regLog) = 6
    /\ WritesOf(regLog)[6] = RegVal(2, 0)
    /\ WritesOf(regLog)[5].reg = 80

\* lp5569_play_tape has been called: regLog is the log of its register writes
InPlay == PlayEvents # { }
Acked(reg, val) == [reg |-> reg, val |-> val, ret |-> 0]

\* C16: within one lp5569_cmd lp5569_play_tape is called at most once;
\* once a register write of lp5569_run_program has failed no further
\* register write is made in that command; and the run write
\* (engine-control-2 = 0x80) is made only after the load write, both page
\* selects, all 64 bytes and the halt write were each acknowledged.
C16_NoContinuationAfterFailure ==
    /\ [] ( /\ Cardinality(PlayEvents) <= 1
            /\ InPlay =>
                  /\ \A j \in 1..(Len(regLog) - 1) : regLog[j].ret = 0
                  /\ \A j \in 1..Len(regLog) :
                        regLog[j].reg = 2 /\ regLog[j].val = 128 =>
                            /\ j = 69
                            /\ regLog[1] = Acked(2, 84)
                            /\ regLog[2] = Acked(79, 1)
                            /\ \A k \in 1..32 :
                                  regLog[2 + k] = Acked(79 + k, led_mux_tapes[tape_index + 1][k])
                            /\ regLog[35] = Acked(79, 0)
                            /\ \A k \in 1..32 : regLog[35 + k] = Acked(79 + k, led_prog[k])
                            /\ regLog[68] = Acked(2, 0) )
    /\ [][ InPlay /\ regLog # << >> /\ Last(regLog).ret # 0 => busv' = busv ]_vars

\* C16 witness: the third byte of the mux table was not acknowledged, and
\* the command ended without another register write
C16_Witness ==
    /\ pc = "cmd_return" /\ InPlay
    /\ Len(regLog) = 5 /\ regLog[5].reg = 82 /\ regLog[5].ret # 0
    /\ sampled = << 0, 0, 1 >>

\* the thirteen register writes of one initialization, as the source lists
\* them: reset, enable, misc, program start, the nine currents
InitOrder ==
    << RegVal(63, 255), RegVal(0, 64), RegVal(47, 89), RegVal(75, 0),
       RegVal(34, 10), RegVal(37, 10), RegVal(40, 10),
       RegVal(35, 3), RegVal(38, 3), RegVal(41, 3),
       RegVal(36, 8), RegVal(39, 8), RegVal(42, 8) >>

\* C17: each lp5569_init attempt writes reset, enable, misc, engine program
\* start and the nine currents in that order and stops at the first failed
\* write; every attempt starts again from the reset write; a successful
\* attempt is exactly these 13 writes, all acknowledged.
C17_InitWritesInOrder ==
    I2cInitOk /\ ~InPlay =>
        /\ Len(regLog) <= 13
        /\ WritesOf(regLog) = SubSeq(InitOrder, 1, Len(regLog))
        /\ \A j \in 1..(Len(regLog) - 1) : regLog[j].ret = 0
        /\ pc = "lp5569_init" => Len(regLog) = initStep - 1
        /\ pc = "init_ret" =>
              /\ regLog # << >> /\ Last(regLog).ret = rv
              /\ rv = 0 <=> Len(regLog) = 13 /\ Last(regLog).ret = 0
        /\ Last(cmdLog) = Event("lp5569_init", 0) =>
              Len(regLog) = 13 /\ \A j \in 1..13 : regLog[j].ret = 0

\* C17 witness: the second attempt, after a first one that failed, stopped
\* at its third write (misc), which was not acknowledged
C17_Witness ==
    /\ pc = "init_ret" /\ rv # 0
    /\ Cardinality(FailedInits) = 1
    /\ Len(regLog) = 3
    /\ regLog[1] = Acked(63, 255) /\ regLog[3].reg = 47 /\ regLog[3].ret # 0

\* C18: a digital-I/O failure during a transaction is propagated: when a
\* gpio_direction_output of the call failed (setting the clock or the data
\* line), or a sample of the data line failed or was neither 0 nor 1,
\* i2c_set_register returns a failure.
C18_IoFailurePropagated ==
    /\ regLog # << >>
    /\ \/ \E n \in 1..Len(gpioLog) :
             gpioLog[n].op = "direction_output" /\ gpioLog[n].res # 0
       \/ \E j \in 1..Len(sampled) : sampled[j] < 0
    => Last(regLog).ret # 0

\* initialization and lp5569_play_tape both succeeded
PlaybackSucceeded ==
    \E n \in 1..Len(cmdLog) : cmdLog[n] = Event("play_tape_ret", 0)

\* C19: when initialization and playback succeeded but the teardown fails,
\* the value lp5569_cmd hands to the error reporting is the value i2c_deinit
\* returned; when the teardown succeeds too the command returns 0 and
\* reports nothing.
C19_RawTeardownCodeReported ==
    pc = "cmd_return" /\ I2cInitOk /\ PlaybackSucceeded =>
        /\ Last(cmdLog).ev = "i2c_deinit"
        /\ IF Last(cmdLog).val # 0
           THEN reported = << Last(cmdLog).val >>
           ELSE reported = << >> /\ cmdRet = << 0 >>

\* a level handed to a line: zero is low, anything else is high
Level(v) == IF v = 0 THEN 0 ELSE 1
\* the level of the clock line before operation k of trace t (high when idle)
SclBefore(t, k) ==
    IF \E m \in 1..(k - 1) : t[m].op = "set_scl"
    THEN Level(t[CHOOSE m \in 1..(k - 1) :
                    /\ t[m].op = "set_scl"
                    /\ \A x \in (m + 1)..(k - 1) : t[x].op # "set_scl"].val)
    ELSE 1
\* the level the master has the data line at before operation k of trace t:
\* the last level it set, or high once it made the line an input
SdaBefore(t, k) ==
    IF \E m \in 1..(k - 1) : t[m].op \in { "set_sda", "get_sda" }
    THEN LET e == t[CHOOSE m \in 1..(k - 1) :
                      /\ t[m].op \in { "set_sda", "get_sda" }
                      /\ \A x \in (m + 1)..(k - 1) : t[x].op \notin { "set_sda", "get_sda" }]
         IN  IF e.op = "get_sda" THEN 1 ELSE Level(e.val)
    ELSE 1
\* the operations of trace t that change the data line while the clock is high
HighChanges(t) ==
    { k \in 1..Len(t) : /\ t[k].op = "set_sda"
                         /\ Level(t[k].val) # SdaBefore(t, k)
                         /\ SclBefore(t, k) = 1 }
\* every call starts from an idle bus, changes the data line while the clock
\* is high at the start edge and at the stop edge only, and sets the data
\* line anywhere else while the clock is low
EdgesOnlyAtStartAndStop ==
    /\ scl = 1 /\ sda = 1
    /\ regLog # << >> =>
          /\ busLog[1].op = "i2c_start" /\ busLog[Len(busLog) - 4].op = "i2c_stop"
          /\ busLog[4] = set_sda(0) /\ busLog[Len(busLog)] = set_sda(1)
          /\ HighChanges(busLog) = { 4, Len(busLog) }
          /\ \A k \in 1..Len(busLog) :
                busLog[k].op = "set_sda" /\ k \notin { 2, 4, Len(busLog) } =>
                    SclBefore(busLog, k) = 0

\* C20 as stated: across any sequence of i2c_set_register calls from an idle
\* bus the data line changes while the clock is high at exactly two points
\* per call, the start edge and the stop edge, every other change is made
\* while the clock is low, and the data line is sampled only while the
\* clock is high.
C20_SampledOnlyWhileClockHigh ==
    /\ EdgesOnlyAtStartAndStop
    /\ \A k \in 1..Len(busLog) :
          busLog[k].op = "get_sda" => SclBefore(busLog, k) = 1

\* C20 amended: the edges are as stated, and the acknowledgment bit that
\* i2c_read_bit returns is sampled while the clock is high; i2c_sda_high
\* reads the data line once more per byte while the clock is low, to make
\* the line an input, and discards the value.
C20_AckSampledWhileClockHigh ==
    /\ EdgesOnlyAtStartAndStop
    /\ \A k \in 1..Len(busLog) :
          busLog[k].op = "get_sda" =>
              IF busLog[k - 2].op = "i2c_read_bit"
              THEN SclBefore(busLog, k) = 1
              ELSE busLog[k - 3].op = "i2c_sda_high" /\ SclBefore(busLog, k) = 0
    /\ regLog # << >> =>
          Len(SelectSeq(busLog, LAMBDA e : e.op = "get_sda")) = 2 * Len(sampled)

\* C20 witness: the second call of a sequence wrote 0xA5 with all three
\* bytes acknowledged: 24 data bits, three releases, one start, one stop
C20_Witness ==
    /\ Len(regLog) = 2 /\ Last(regLog).ret = 0 /\ wdata = 165
    /\ Len(SelectSeq(busLog, LAMBDA e : e.op = "i2c_write_bit")) = 24
    /\ Len(SelectSeq(busLog, LAMBDA e : e.op = "i2c_sda_high")) = 3
    /\ HighChanges(busLog) = { 4, Len(busLog) }

====
